---- MODULE Spec2Model ----
(***************************************************************************)
(* Model of the posting-list merger (in3120/postingsmerger.py) and of the  *)
(* N-of-M query evaluator (in3120/simplesearchengine.py).                  *)
(*                                                                         *)
(* A posting iterator is a record over the posting objects it walks: the   *)
(* objects are shared with whoever holds the list, so an in-place update   *)
(* of a posting's term_frequency is an update of items.  A generator is a  *)
(* state machine over pc; its consumer pulls it to exhaustion.             *)
(***************************************************************************)
EXTENDS Integers, Sequences, FiniteSets, TLC

\* ---------------------------------------------------------------- bounds
MaxDoc == 3        \* document ids are 1..MaxDoc
MaxTf == 2         \* term frequencies are 1..MaxTf
MaxTerms == 2      \* at most MaxTerms unique query terms
MaxHit == 2        \* hit_count is at most MaxHit

VARIABLES
    op,              \* which operation runs: intersection, union, difference, evaluate
    input,           \* the posting lists as the index holds them before the call
    iterators,       \* the posting iterators (iter1, iter2 of a merge; one per term)
    a, b,            \* a merge's current postings: positions in iter1's / iter2's items
    guarded,         \* a merge's "yield from" runs inside the outer try of union
    pc,              \* position of the running generator
    out,             \* what the generator has yielded so far
    outcome,         \* running, returned, or the exception that left the generator
    match_threshold, \* options["match_threshold"], a ratio <<numerator, denominator>>
    hit_count,       \* options["hit_count"]
    match_count,     \* evaluate's match_count
    postings,        \* evaluate's list of current postings
    ranked,          \* document ids handed to ranker.reset, in call order
    sieve,           \* document ids offered to sieve.sift, in call order
    advanced,        \* evaluate: number of next() calls made on posting iterators
    faults           \* per posting list, which call of next() raises a fault (0: none)

vars == <<op, input, iterators, a, b, guarded, pc, out, outcome, match_threshold,
          hit_count, match_count, postings, ranked, sieve, advanced, faults>>

mergeVars == <<a, b, guarded, out>>
evalVars == <<match_threshold, hit_count, match_count, postings, ranked, sieve, advanced>>

\* ------------------------------------------------------- posting sequences
Min(S) == CHOOSE x \in S : \A y \in S : x <= y

RECURSIVE SortedSeq(_)
SortedSeq(S) == IF S = {} THEN <<>> ELSE <<Min(S)>> \o SortedSeq(S \ {Min(S)})

Posting(d, tf) == [document_id |-> d, term_frequency |-> tf]

\* Every posting list over ids 1..maxDoc, strictly increasing by document_id.
PostingLists(maxDoc, maxTf) ==
    UNION { { [i \in 1..Cardinality(S) |-> Posting(SortedSeq(S)[i], f[SortedSeq(S)[i]])]
              : f \in [S -> 1..maxTf] }
            : S \in SUBSET (1..maxDoc) }

Ids(list) == { list[i].document_id : i \in 1..Len(list) }

\* A fresh iterator over a posting list; faultAt = k > 0 makes the k-th call of
\* next() raise an exception that is not StopIteration.
Iterator(list, faultAt) == [items |-> list, pos |-> 0, faultAt |-> faultAt, dead |-> FALSE]

\* next(iterator): the next posting, StopIteration, or the fault.  A generator
\* that raised is finished: every later next() raises StopIteration.
Advance(it) ==
    IF it.dead THEN [kind |-> "stop", it |-> it]
    ELSE IF it.faultAt = it.pos + 1 THEN [kind |-> "fault", it |-> [it EXCEPT !.dead = TRUE]]
    ELSE IF it.pos < Len(it.items) THEN [kind |-> "item", it |-> [it EXCEPT !.pos = @ + 1]]
    ELSE [kind |-> "stop", it |-> it]

\* a / b never rebound after the first posting.
Held_stale(i, k) == iterators[i].items[1]

\* The posting object a merge holds in a / b.
Held(i, k) == iterators[i].items[k]

Finish(result) == pc' = "done" /\ outcome' = result

Yield(p) == out' = Append(out, p)

\* ------------------------------------------------- PostingsMerger.intersection
\* a.term_frequency += b.term_frequency (line 47): the frequency a carries afterwards.
intersection_frequency_of_a(pa, pb) == pa.term_frequency

intersection_frequency(pa, pb) == pa.term_frequency + pb.term_frequency

\* Lines 37-62 as a function of two posting lists without faults: what the
\* generator yields when iter1 stands before X[i] and iter2 before Y[j].
RECURSIVE intersection_from(_, _, _, _)
intersection_from(X, Y, i, j) ==
    IF j > Len(Y) \/ i > Len(X) THEN <<>>
    ELSE IF X[i].document_id = Y[j].document_id
    THEN <<[X[i] EXCEPT !.term_frequency = intersection_frequency(X[i], Y[j])]>>
         \o intersection_from(X, Y, i + 1, j + 1)
    ELSE IF X[i].document_id < Y[j].document_id
    THEN intersection_from(X, Y, i + 1, j)
    ELSE intersection_from(X, Y, i, j + 1)

intersection(X, Y) == intersection_from(X, Y, 1, 1)

\* Lines 37-44 with the two try blocks in the other order: iter1 first.
intersection_begin_iter1_first ==
    /\ op = "intersection" /\ pc = "start"
    /\ LET r2 == Advance(iterators[2])
           r1 == Advance(iterators[1])
       IN IF r1.kind # "item"
          THEN /\ iterators' = [iterators EXCEPT ![1] = r1.it]
               /\ Finish("returned")
               /\ UNCHANGED <<a, b>>
          ELSE IF r2.kind # "item"
          THEN /\ iterators' = [iterators EXCEPT ![1] = r1.it, ![2] = r2.it]
               /\ a' = r1.it.pos
               /\ Finish("returned")
               /\ UNCHANGED b
          ELSE /\ iterators' = [iterators EXCEPT ![1] = r1.it, ![2] = r2.it]
               /\ a' = r1.it.pos /\ b' = r2.it.pos
               /\ pc' = "loop"
               /\ UNCHANGED outcome
    /\ UNCHANGED <<op, input, faults, guarded, out, evalVars>>

\* Lines 37-44: the first posting of iter2, then of iter1; a bare except returns.
intersection_begin ==
    /\ op = "intersection" /\ pc = "start"
    /\ LET r2 == Advance(iterators[2])
           r1 == Advance(iterators[1])
       IN IF r2.kind # "item"
          THEN /\ iterators' = [iterators EXCEPT ![2] = r2.it]
               /\ Finish("returned")
               /\ UNCHANGED <<a, b>>
          ELSE IF r1.kind # "item"
          THEN /\ iterators' = [iterators EXCEPT ![1] = r1.it, ![2] = r2.it]
               /\ b' = r2.it.pos
               /\ Finish("returned")
               /\ UNCHANGED a
          ELSE /\ iterators' = [iterators EXCEPT ![1] = r1.it, ![2] = r2.it]
               /\ a' = r1.it.pos /\ b' = r2.it.pos
               /\ pc' = "loop"
               /\ UNCHANGED outcome
    /\ UNCHANGED <<op, input, faults, guarded, out, evalVars>>

\* Lines 45-62: one iteration of the while loop.
intersection_while ==
    /\ op = "intersection" /\ pc = "loop"
    /\ LET pa == Held(1, a)
           pb == Held(2, b)
           r1 == Advance(iterators[1])
           r2 == Advance(iterators[2])
       IN IF pa.document_id = pb.document_id
          THEN LET summed == [pa EXCEPT !.term_frequency = intersection_frequency(pa, pb)]
                   r1s == [r1 EXCEPT !.it.items[a] = summed]
               IN /\ Yield(summed)
                  /\ IF r1s.kind # "item"
                     THEN /\ iterators' = [iterators EXCEPT ![1] = r1s.it]
                          /\ Finish("returned")
                          /\ UNCHANGED <<a, b>>
                     ELSE IF r2.kind # "item"
                     THEN /\ iterators' = [iterators EXCEPT ![1] = r1s.it, ![2] = r2.it]
                          /\ Finish("returned")
                          /\ UNCHANGED <<a, b>>
                     ELSE /\ iterators' = [iterators EXCEPT ![1] = r1s.it, ![2] = r2.it]
                          /\ a' = r1s.it.pos /\ b' = r2.it.pos
                          /\ UNCHANGED <<pc, outcome>>
          ELSE IF pa.document_id < pb.document_id
          THEN /\ iterators' = [iterators EXCEPT ![1] = r1.it]
               /\ IF r1.kind # "item"
                  THEN Finish("returned") /\ UNCHANGED a
                  ELSE a' = r1.it.pos /\ UNCHANGED <<pc, outcome>>
               /\ UNCHANGED <<b, out>>
          ELSE /\ iterators' = [iterators EXCEPT ![2] = r2.it]
               /\ IF r2.kind # "item"
                  THEN Finish("returned") /\ UNCHANGED b
                  ELSE b' = r2.it.pos /\ UNCHANGED <<pc, outcome>>
               /\ UNCHANGED <<a, out>>
    /\ UNCHANGED <<op, input, faults, guarded, evalVars>>

\* ------------------------------------------------------- PostingsMerger.union
\* a.term_frequency += b.term_frequency (line 113): the frequency a carries afterwards.
union_frequency_of_b(pa, pb) == pb.term_frequency

union_frequency(pa, pb) == pa.term_frequency + pb.term_frequency

\* Lines 80-93: the first posting of iter2, then of iter1, inside the outer try.
union_begin ==
    /\ op = "union" /\ pc = "start"
    /\ LET r2 == Advance(iterators[2])
           r1 == Advance(iterators[1])
       IN IF r2.kind # "item"
          THEN /\ iterators' = [iterators EXCEPT ![2] = r2.it]
               /\ pc' = "yield_from_iter1" /\ guarded' = TRUE
               /\ UNCHANGED <<a, b, out>>
          ELSE IF r1.kind # "item"
          THEN /\ iterators' = [iterators EXCEPT ![1] = r1.it, ![2] = r2.it]
               /\ b' = r2.it.pos
               /\ Yield(r2.it.items[r2.it.pos])
               /\ pc' = "yield_from_iter2" /\ guarded' = TRUE
               /\ UNCHANGED a
          ELSE /\ iterators' = [iterators EXCEPT ![1] = r1.it, ![2] = r2.it]
               /\ a' = r1.it.pos /\ b' = r2.it.pos
               /\ pc' = "loop"
               /\ UNCHANGED <<guarded, out>>
    /\ UNCHANGED <<op, input, faults, outcome, evalVars>>

\* Lines 95-128: one iteration of the while loop.
union_while ==
    /\ op = "union" /\ pc = "loop"
    /\ LET pa == Held(1, a)
           pb == Held(2, b)
           r1 == Advance(iterators[1])
           r2 == Advance(iterators[2])
       IN IF pa.document_id < pb.document_id
          THEN /\ iterators' = [iterators EXCEPT ![1] = r1.it]
               /\ IF r1.kind # "item"
                  THEN /\ out' = out \o <<pa, pb>>
                       /\ pc' = "yield_from_iter2" /\ guarded' = FALSE
                       /\ UNCHANGED a
                  ELSE /\ Yield(pa)
                       /\ a' = r1.it.pos
                       /\ UNCHANGED <<pc, guarded>>
               /\ UNCHANGED b
          ELSE IF pa.document_id > pb.document_id
          THEN /\ iterators' = [iterators EXCEPT ![2] = r2.it]
               /\ IF r2.kind # "item"
                  THEN /\ out' = out \o <<pb, pa>>
                       /\ pc' = "yield_from_iter1" /\ guarded' = FALSE
                       /\ UNCHANGED b
                  ELSE /\ Yield(pb)
                       /\ b' = r2.it.pos
                       /\ UNCHANGED <<pc, guarded>>
               /\ UNCHANGED a
          ELSE LET summed == [pa EXCEPT !.term_frequency = union_frequency(pa, pb)]
                   its == [iterators EXCEPT ![1].items[a] = summed]
                   r1s == Advance(its[1])
               IN IF r2.kind # "item"
                  THEN /\ iterators' = [its EXCEPT ![2] = r2.it]
                       /\ Yield(summed)
                       /\ pc' = "yield_from_iter1" /\ guarded' = TRUE
                       /\ UNCHANGED <<a, b>>
                  ELSE IF r1s.kind # "item"
                  THEN /\ iterators' = [its EXCEPT ![1] = r1s.it, ![2] = r2.it]
                       /\ b' = r2.it.pos
                       /\ out' = out \o <<summed, r2.it.items[r2.it.pos]>>
                       /\ pc' = "yield_from_iter2" /\ guarded' = TRUE
                       /\ UNCHANGED a
                  ELSE /\ iterators' = [its EXCEPT ![1] = r1s.it, ![2] = r2.it]
                       /\ a' = r1s.it.pos /\ b' = r2.it.pos
                       /\ Yield(summed)
                       /\ UNCHANGED <<pc, guarded>>
    /\ UNCHANGED <<op, input, faults, outcome, evalVars>>

\* "yield from iterN" followed by return: one posting of the remainder per step.
\* A fault of the iterator leaves the generator unless the statement stands in
\* the outer try of union (lines 80-93, 115-128), whose bare except returns.
yield_from ==
    /\ op \in {"union", "difference"}
    /\ pc \in {"yield_from_iter1", "yield_from_iter2"}
    /\ LET i == IF pc = "yield_from_iter1" THEN 1 ELSE 2
           r == Advance(iterators[i])
       IN /\ iterators' = [iterators EXCEPT ![i] = r.it]
          /\ IF r.kind = "item"
             THEN Yield(r.it.items[r.it.pos]) /\ UNCHANGED <<pc, outcome>>
             ELSE IF r.kind = "stop" \/ guarded
             THEN Finish("returned") /\ UNCHANGED out
             ELSE Finish("Fault") /\ UNCHANGED out
    /\ UNCHANGED <<op, input, faults, a, b, guarded, evalVars>>

\* -------------------------------------------------- PostingsMerger.difference
\* Lines 152-159: advance b while a.document_id > b.document_id; exhausted tells
\* that next(iter2) raised inside the loop.
RECURSIVE difference_skip(_, _, _)
difference_skip(it2, kb, d) ==
    IF ~(d > it2.items[kb].document_id)
    THEN [it |-> it2, b |-> kb, exhausted |-> FALSE]
    ELSE LET r == Advance(it2)
         IN IF r.kind # "item"
            THEN [it |-> r.it, b |-> kb, exhausted |-> TRUE]
            ELSE difference_skip(r.it, r.it.pos, d)

\* Lines 146-150: the first posting of iter2; a bare except yields all of iter1.
difference_begin ==
    /\ op = "difference" /\ pc = "start"
    /\ LET r2 == Advance(iterators[2])
       IN /\ iterators' = [iterators EXCEPT ![2] = r2.it]
          /\ IF r2.kind # "item"
             THEN pc' = "yield_from_iter1" /\ UNCHANGED b
             ELSE pc' = "loop" /\ b' = r2.it.pos
    /\ UNCHANGED <<op, input, faults, a, guarded, out, outcome, evalVars>>

\* Lines 151-164: one iteration of "for a in iter1".  next(iter2) on line 161
\* stands outside any try: its StopIteration leaves the generator, which Python
\* reports to the consumer as RuntimeError.
difference_for ==
    /\ op = "difference" /\ pc = "loop"
    /\ LET r1 == Advance(iterators[1])
       IN IF r1.kind = "stop"
          THEN /\ iterators' = [iterators EXCEPT ![1] = r1.it]
               /\ Finish("returned")
               /\ UNCHANGED <<a, b, out>>
          ELSE IF r1.kind = "fault"
          THEN /\ iterators' = [iterators EXCEPT ![1] = r1.it]
               /\ Finish("Fault")
               /\ UNCHANGED <<a, b, out>>
          ELSE LET pa == r1.it.items[r1.it.pos]
                   s == difference_skip(iterators[2], b, pa.document_id)
                   r2 == Advance(s.it)
               IN /\ a' = r1.it.pos
                  /\ IF s.exhausted
                     THEN /\ iterators' = [iterators EXCEPT ![1] = r1.it, ![2] = s.it]
                          /\ Yield(pa)
                          /\ pc' = "yield_from_iter1"
                          /\ UNCHANGED <<b, outcome>>
                     ELSE IF pa.document_id = s.it.items[s.b].document_id
                     THEN /\ iterators' = [iterators EXCEPT ![1] = r1.it, ![2] = r2.it]
                          /\ IF r2.kind = "item"
                             THEN b' = r2.it.pos /\ UNCHANGED <<pc, outcome>>
                             ELSE IF r2.kind = "stop"
                             THEN Finish("RuntimeError") /\ b' = s.b
                             ELSE Finish("Fault") /\ b' = s.b
                          /\ UNCHANGED out
                     ELSE /\ iterators' = [iterators EXCEPT ![1] = r1.it, ![2] = s.it]
                          /\ Yield(pa)
                          /\ b' = s.b
                          /\ UNCHANGED <<pc, outcome>>
    /\ UNCHANGED <<op, input, faults, guarded, evalVars>>

\* ------------------------------------------------ SimpleSearchEngine.evaluate
\* int(x) of the ratio n/d, d > 0: truncation toward zero.
int(n, d) == IF n >= 0 THEN n \div d ELSE -((-n) \div d)

\* next(iterator, None) yields None where next(iterator) raises StopIteration.
None == [document_id |-> 0, term_frequency |-> 0, from |-> 0]

\* The posting iterator i has just produced; from records the producing iterator.
Current(it, i) ==
    [document_id |-> it.items[it.pos].document_id,
     term_frequency |-> it.items[it.pos].term_frequency,
     from |-> i]

\* list.remove(None): drops the first None.
RECURSIVE remove_None(_)
remove_None(ps) ==
    IF ps = <<>> THEN <<>>
    ELSE IF Head(ps) = None THEN Tail(ps)
    ELSE <<Head(ps)>> \o remove_None(Tail(ps))

\* Lines 65-66 left out: the exhausted cursors stay in the list.
remove_all_None_keeps(ps) == ps

\* Lines 65-66: while None in postings: postings.remove(None).
RECURSIVE remove_all_None(_)
remove_all_None(ps) ==
    IF \E i \in 1..Len(ps) : ps[i] = None THEN remove_all_None(remove_None(ps)) ELSE ps

\* Line 64: [next(iterator, None) for iterator in iterators], from iterator i on.
RECURSIVE first_postings(_, _, _, _)
first_postings(its, i, ps, n) ==
    IF i > Len(its) THEN [iterators |-> its, postings |-> ps, advanced |-> n, fault |-> FALSE]
    ELSE LET r == Advance(its[i])
             its2 == [its EXCEPT ![i] = r.it]
         IN IF r.kind = "fault"
            THEN [iterators |-> its2, postings |-> ps, advanced |-> n + 1, fault |-> TRUE]
            ELSE first_postings(its2, i + 1,
                                Append(ps, IF r.kind = "item" THEN Current(r.it, i) ELSE None),
                                n + 1)

\* Counter(posting.document_id for posting in postings).most_common(1)[0]: the
\* tuple (document_id, count) of the most frequent id, the first seen among equals.
Count(ps, d) == Cardinality({ i \in 1..Len(ps) : ps[i].document_id = d })

most_common(ps) ==
    LET best == CHOOSE i \in 1..Len(ps) :
                    /\ \A j \in 1..Len(ps) : Count(ps, ps[j].document_id) <= Count(ps, ps[i].document_id)
                    /\ \A j \in 1..(i - 1) : Count(ps, ps[j].document_id) < Count(ps, ps[i].document_id)
    IN <<ps[best].document_id, Count(ps, ps[best].document_id)>>

\* Line 71, most_common == match_count: a tuple is never equal to an int.
tuple_eq_int(t, n) == FALSE

\* Lines 95-96: postings.index(min(postings, key=document_id)), the first minimum.
min_posting_index(ps) ==
    CHOOSE i \in 1..Len(ps) :
        /\ \A j \in 1..Len(ps) : ps[i].document_id <= ps[j].document_id
        /\ \A j \in 1..(i - 1) : ps[j].document_id > ps[i].document_id

\* The loop body with the test of line 71 dropped: every most common id is ranked.
while_body_ranks_all(ps, its, n, rk, sv) ==
    LET same == [postings |-> ps, iterators |-> its, ranked |-> rk, sieve |-> sv, calls |-> 0]
    IN IF ps = <<>>
       THEN same @@ [raised |-> "IndexError"]
       ELSE LET i == min_posting_index(ps)
                r == Advance(its[i])
                its2 == [its EXCEPT ![i] = r.it]
                d == most_common(ps)[1]
            IN [same EXCEPT !.iterators = its2, !.calls = 1,
                            !.ranked = Append(rk, d), !.sieve = Append(sv, d),
                            !.postings = IF r.kind = "item"
                                         THEN [ps EXCEPT ![i] = Current(r.it, i)]
                                         ELSE remove_None([ps EXCEPT ![i] = None])]
               @@ [raised |-> "none"]

\* The loop body without lines 98-99: an exhausted iterator leaves its cursor in place.
while_body_keeps_exhausted(ps, its, n, rk, sv) ==
    LET same == [postings |-> ps, iterators |-> its, ranked |-> rk, sieve |-> sv, calls |-> 0]
    IN IF ps = <<>>
       THEN same @@ [raised |-> "IndexError"]
       ELSE LET i == min_posting_index(ps)
                r == Advance(its[i])
                its2 == [its EXCEPT ![i] = r.it]
            IN [same EXCEPT !.iterators = its2, !.calls = 1,
                            !.postings = IF r.kind = "item"
                                         THEN [ps EXCEPT ![i] = Current(r.it, i)]
                                         ELSE ps]
               @@ [raised |-> "none"]

\* Lines 69-99: the body of the while loop, entered with len(postings) >= match_count.
\* The result holds the state the body leaves and the exception it raised, if any.
while_body(ps, its, n, rk, sv) ==
    LET same == [postings |-> ps, iterators |-> its, ranked |-> rk, sieve |-> sv, calls |-> 0]
    IN IF ps = <<>>
       THEN same @@ [raised |-> "IndexError"]         \* most_common(1)[0] of no posting
       ELSE IF tuple_eq_int(most_common(ps), n)
       THEN same @@ [raised |-> "AttributeError"]     \* most_common.document_id of a tuple
       ELSE LET i == min_posting_index(ps)
                r == Advance(its[i])
                its2 == [its EXCEPT ![i] = r.it]
            IN IF r.kind = "fault"
               THEN [same EXCEPT !.iterators = its2, !.calls = 1] @@ [raised |-> "Fault"]
               ELSE [same EXCEPT !.iterators = its2, !.calls = 1,
                                 !.postings = IF r.kind = "item"
                                              THEN [ps EXCEPT ![i] = Current(r.it, i)]
                                              ELSE remove_None([ps EXCEPT ![i] = None])]
                    @@ [raised |-> "none"]

\* Sieve(hit_count): the document ids offered to sift(), in call order; winners()
\* yields at most size of them.
Sieve(size) == <<>>

winners(sv, size) == SubSeq(sv, 1, IF Len(sv) < size THEN Len(sv) ELSE size)

\* Lines 49-57: the options, the query terms, match_count and the sieve.
evaluate_options ==
    /\ op = "evaluate" /\ pc = "start"
    /\ match_count' = int(Len(input) * match_threshold[1], match_threshold[2])
    /\ sieve' = Sieve(hit_count)
    /\ pc' = "iterators"
    /\ UNCHANGED <<op, input, faults, iterators, mergeVars, outcome, match_threshold,
                   hit_count, postings, ranked, advanced>>

\* Lines 58-61: one posting iterator per query term.
evaluate_iterators ==
    /\ op = "evaluate" /\ pc = "iterators"
    /\ iterators' = [i \in 1..Len(input) |-> Iterator(input[i], faults[i])]
    /\ pc' = "first"
    /\ UNCHANGED <<op, input, faults, mergeVars, outcome, evalVars>>

\* Lines 64-66: the first posting of every iterator, the exhausted ones removed.
evaluate_first ==
    /\ op = "evaluate" /\ pc = "first"
    /\ LET f == first_postings(iterators, 1, <<>>, 0)
       IN /\ iterators' = f.iterators
          /\ advanced' = f.advanced
          /\ IF f.fault
             THEN Finish("Fault") /\ UNCHANGED postings
             ELSE /\ postings' = remove_all_None(f.postings)
                  /\ pc' = "loop"
                  /\ UNCHANGED outcome
    /\ UNCHANGED <<op, input, faults, mergeVars, match_threshold, hit_count, match_count,
                   ranked, sieve>>

\* The loop of lines 68-99 with the test off by one: len(postings) >= match_count - 1.
evaluate_while_scans_on ==
    /\ op = "evaluate" /\ pc = "loop"
    /\ IF Len(postings) >= match_count - 1
       THEN LET w == while_body(postings, iterators, match_count, ranked, sieve)
            IN /\ postings' = w.postings
               /\ iterators' = w.iterators
               /\ ranked' = w.ranked
               /\ sieve' = w.sieve
               /\ advanced' = advanced + w.calls
               /\ IF w.raised = "none"
                  THEN UNCHANGED <<pc, outcome>>
                  ELSE Finish(w.raised)
       ELSE /\ pc' = "winners"
            /\ UNCHANGED <<postings, iterators, ranked, sieve, advanced, outcome>>
    /\ UNCHANGED <<op, input, faults, mergeVars, match_threshold, hit_count, match_count>>

\* Lines 68-99: the loop test and one iteration.
evaluate_while ==
    /\ op = "evaluate" /\ pc = "loop"
    /\ IF Len(postings) >= match_count
       THEN LET w == while_body(postings, iterators, match_count, ranked, sieve)
            IN /\ postings' = w.postings
               /\ iterators' = w.iterators
               /\ ranked' = w.ranked
               /\ sieve' = w.sieve
               /\ advanced' = advanced + w.calls
               /\ IF w.raised = "none"
                  THEN UNCHANGED <<pc, outcome>>
                  ELSE Finish(w.raised)
       ELSE /\ pc' = "winners"
            /\ UNCHANGED <<postings, iterators, ranked, sieve, advanced, outcome>>
    /\ UNCHANGED <<op, input, faults, mergeVars, match_threshold, hit_count, match_count>>

\* Lines 101-102: one record per winner of the sieve.
evaluate_winners ==
    /\ op = "evaluate" /\ pc = "winners"
    /\ out' = winners(sieve, hit_count)
    /\ Finish("returned")
    /\ UNCHANGED <<op, input, faults, iterators, a, b, guarded, evalVars>>

\* -------------------------------------------------------------- initial states
NoEvaluate ==
    /\ match_threshold = <<0, 1>> /\ hit_count = 1 /\ match_count = 0
    /\ postings = <<>> /\ ranked = <<>> /\ sieve = <<>> /\ advanced = 0

\* A merge of two posting lists A = input[1] and B = input[2], given iterators over them.
InitMerge(operation, placements) ==
    /\ op = operation
    /\ input \in [1..2 -> PostingLists(MaxDoc, MaxTf)]
    /\ faults \in placements
    /\ iterators = [i \in 1..2 |-> Iterator(input[i], faults[i])]
    /\ a = 0 /\ b = 0 /\ guarded = FALSE
    /\ pc = "start" /\ out = <<>> /\ outcome = "running"
    /\ NoEvaluate

NoFault == { <<0, 0>> }

InitIntersection == InitMerge("intersection", NoFault)

NextIntersection == intersection_begin \/ intersection_while

SpecIntersection == InitIntersection /\ [][NextIntersection]_vars

InitUnion == InitMerge("union", NoFault)

NextUnion == union_begin \/ union_while \/ yield_from

SpecUnion == InitUnion /\ [][NextUnion]_vars

InitDifference == InitMerge("difference", NoFault)

NextDifference == difference_begin \/ difference_for \/ yield_from

SpecDifference == InitDifference /\ [][NextDifference]_vars

\* Any of the three merges.
InitAnyMerge == \E o \in {"intersection", "union", "difference"} : InitMerge(o, NoFault)

NextMerge ==
    \/ intersection_begin \/ intersection_while
    \/ union_begin \/ union_while
    \/ difference_begin \/ difference_for
    \/ yield_from

SpecMerge == InitAnyMerge /\ [][NextMerge]_vars

\* match_threshold in [0, 1] and outside of it, as ratios.
ValidThresholds == { <<0, 1>>, <<1, 2>>, <<2, 3>>, <<1, 1>> }

InvalidThresholds == { <<-1, 2>>, <<3, 2>> }

\* A query of up to MaxTerms unique terms over an index; input[i] is the posting
\* list of the i-th term, empty when the index does not know the term.
InitEvaluate(thresholds, hits, placements) ==
    /\ op = "evaluate"
    /\ input \in UNION { [1..m -> PostingLists(MaxDoc, 1)] : m \in 0..MaxTerms }
    /\ faults \in placements
    /\ iterators = <<>>
    /\ a = 0 /\ b = 0 /\ guarded = FALSE
    /\ pc = "start" /\ out = <<>> /\ outcome = "running"
    /\ match_threshold \in thresholds
    /\ hit_count \in hits
    /\ match_count = 0 /\ postings = <<>> /\ ranked = <<>> /\ sieve = <<>> /\ advanced = 0

NoFaults == { [i \in 1..Len(input) |-> 0] }

NextEvaluate ==
    \/ evaluate_options
    \/ evaluate_iterators
    \/ evaluate_first
    \/ evaluate_while
    \/ evaluate_winners

\* Queries with a valid configuration.
InitValid == InitEvaluate(ValidThresholds, 1..MaxHit, NoFaults)

SpecEvaluate == InitValid /\ [][NextEvaluate]_vars

\* Queries whose threshold is above zero; hit_count plays no part in the scan.
InitScan == InitEvaluate(ValidThresholds \ { <<0, 1>> }, { MaxHit }, NoFaults)

\* evaluate_first and evaluate_while can be taken exactly at their position in
\* the code, and taking either changes the state.
guard_is_enabled ==
    /\ (op = "evaluate" /\ pc = "first") <=> ENABLED <<evaluate_first>>_vars
    /\ (op = "evaluate" /\ pc = "loop") <=> ENABLED <<evaluate_while>>_vars

\* The consumer pulls the generator until it ends: a step that can be taken is
\* taken.  This is weak fairness of each step; for evaluate_first and
\* evaluate_while it is written out, WF_v(A) being []<>~ENABLED <<A>>_v \/ []<><<A>>_v,
\* with the guard of guard_is_enabled in place of ENABLED.
SpecEvaluateFair ==
    /\ InitScan /\ [][NextEvaluate]_vars
    /\ WF_vars(evaluate_options)
    /\ WF_vars(evaluate_iterators)
    /\ ([]<>(pc # "first") \/ []<><<evaluate_first>>_vars)
    /\ ([]<>(pc # "loop") \/ []<><<evaluate_while>>_vars)
    /\ WF_vars(evaluate_winners)

\* Queries with any configuration.
InitAnyOptions == InitEvaluate(ValidThresholds \cup InvalidThresholds, 0..MaxHit, NoFaults)

SpecOptions == InitAnyOptions /\ [][NextEvaluate]_vars

\* One iterator raises a fault at one of its calls of next().
OneFault ==
    { f \in [1..Len(input) -> 0..(MaxDoc + 1)] :
        \E i \in 1..Len(input) :
            /\ f[i] \in 1..(Len(input[i]) + 1)
            /\ \A j \in 1..Len(input) : j # i => f[j] = 0 }

InitFault ==
    \/ \E o \in {"intersection", "union", "difference"} : InitMerge(o, OneFault)
    \/ InitEvaluate(ValidThresholds, {1}, OneFault)

NextFault ==
    \/ intersection_begin \/ intersection_while
    \/ union_begin \/ union_while
    \/ difference_begin \/ difference_for
    \/ yield_from
    \/ NextEvaluate

SpecFault == InitFault /\ [][NextFault]_vars

\* ------------------------------------------------------------------ properties
A == input[1]

B == input[2]

FrequencyIn(list, d) == list[CHOOSE i \in 1..Len(list) : list[i].document_id = d].term_frequency

\* One posting per id of ids, increasing, with the frequency freq gives it.
Merged(ids, freq(_)) ==
    [i \in 1..Cardinality(ids) |-> Posting(SortedSeq(ids)[i], freq(SortedSeq(ids)[i]))]

ExpectedIntersection ==
    LET sum(d) == FrequencyIn(A, d) + FrequencyIn(B, d)
    IN Merged(Ids(A) \cap Ids(B), sum)

ExpectedUnion ==
    LET freq(d) == IF d \in Ids(A) /\ d \in Ids(B) THEN FrequencyIn(A, d) + FrequencyIn(B, d)
                   ELSE IF d \in Ids(A) THEN FrequencyIn(A, d)
                   ELSE FrequencyIn(B, d)
    IN Merged(Ids(A) \cup Ids(B), freq)

ExpectedDifference ==
    LET freq(d) == FrequencyIn(A, d)
    IN Merged(Ids(A) \ Ids(B), freq)

\* What an iterator has not produced yet.
Rest(it) == SubSeq(it.items, it.pos + 1, Len(it.items))

\* The number of query terms whose posting list holds document d.
Matches(d) == Cardinality({ i \in 1..Len(input) : d \in Ids(input[i]) })

\* The documents that hold at least n of the query terms (and at least one).
Qualifying(n) == { d \in 1..MaxDoc : Matches(d) >= n /\ Matches(d) >= 1 }

Finished == pc = "done"

\* C1: intersection of two strictly increasing posting lists yields one posting
\* per document id of ids(A) \cap ids(B), in increasing order, each with the sum
\* of the two contributing frequencies.
C1_intersection ==
    (op = "intersection" /\ Finished) =>
        /\ outcome = "returned"
        /\ out = ExpectedIntersection

C1_witness ==
    /\ op = "intersection" /\ Finished
    /\ Len(out) >= 2
    /\ Ids(A) # Ids(B)

\* C2: union of two strictly increasing posting lists yields one posting per
\* document id of ids(A) \cup ids(B), in increasing order; an id of one input
\* keeps its frequency, an id of both carries the sum; once one input is
\* exhausted the remainder of the other is yielded as it stands.
C2_union ==
    /\ (op = "union" /\ Finished) =>
          /\ outcome = "returned"
          /\ out = ExpectedUnion
    /\ (op = "union" /\ pc = "yield_from_iter1") =>
          /\ Rest(iterators[2]) = <<>>
          /\ out \o Rest(iterators[1]) = ExpectedUnion
    /\ (op = "union" /\ pc = "yield_from_iter2") =>
          /\ Rest(iterators[1]) = <<>>
          /\ out \o Rest(iterators[2]) = ExpectedUnion

C2_witness ==
    /\ op = "union" /\ Finished
    /\ Ids(A) \cap Ids(B) # {}
    /\ Ids(A) \ Ids(B) # {}
    /\ Ids(B) \ Ids(A) # {}
    /\ Len(out) = 3

\* C3: difference of two strictly increasing posting lists, consumed to the end,
\* completes normally and yields the postings of A whose id is not in ids(B),
\* unchanged and in order.
C3_difference ==
    (op = "difference" /\ Finished) =>
        /\ outcome = "returned"
        /\ out = ExpectedDifference

\* C4: with N = floor(T * M) >= 1 and hit_count large enough, evaluate yields
\* exactly the documents that occur in at least N of the M posting lists.
C4_n_of_m ==
    (op = "evaluate" /\ Finished /\ match_count >= 1
        /\ hit_count >= Cardinality(Qualifying(match_count))) =>
        /\ outcome = "returned"
        /\ { out[i] : i \in 1..Len(out) } = Qualifying(match_count)

\* C5: a query without terms completes normally with an empty result.
C5_no_terms ==
    (op = "evaluate" /\ Finished /\ Len(input) = 0) =>
        /\ outcome = "returned"
        /\ out = <<>>

\* C6: with N <= 0 evaluate is an OR over the M >= 1 terms: it completes normally
\* after all posting lists are consumed, and every document of some posting list
\* qualifies.
C6_or_of_terms ==
    (op = "evaluate" /\ Finished /\ match_count <= 0 /\ Len(input) >= 1) =>
        /\ outcome = "returned"
        /\ \A i \in 1..Len(iterators) : Rest(iterators[i]) = <<>>
        /\ hit_count >= Cardinality(Qualifying(1)) =>
              { out[i] : i \in 1..Len(out) } = Qualifying(1)

\* C7: evaluate yields min(hit_count, number of qualifying documents) records,
\* never more than hit_count.
C7_hit_count ==
    (op = "evaluate" /\ Finished) =>
        /\ Len(out) <= hit_count
        /\ Len(out) = IF hit_count < Cardinality(Qualifying(match_count))
                      THEN hit_count
                      ELSE Cardinality(Qualifying(match_count))

\* C8: within one evaluate call the ranker and the sieve are invoked at most
\* once per document id, and only for ids that occur in at least N posting lists.
C8_ranked_once ==
    op = "evaluate" =>
        \A log \in {ranked, sieve} :
            /\ \A i, j \in 1..Len(log) : log[i] = log[j] => i = j
            /\ \A i \in 1..Len(log) : Matches(log[i]) >= match_count

C8_witness ==
    /\ op = "evaluate" /\ Finished /\ outcome = "returned"
    /\ match_count >= 1
    /\ Qualifying(match_count) # {}
    /\ advanced > Len(input)

\* C9: a fault of a posting iterator leaves the consuming operation as that
\* fault: the operation does not complete as if the sequence had ended.
C9_fault_propagates ==
    (Finished /\ \E i \in 1..Len(iterators) : iterators[i].dead) => outcome = "Fault"

\* C10: with match_threshold outside [0, 1] or hit_count <= 0, evaluate reports
\* InvalidConfiguration before it obtains or advances a posting iterator.
C10_invalid_configuration ==
    (op = "evaluate"
        /\ (match_threshold \in InvalidThresholds \/ hit_count <= 0)
        /\ pc # "start") =>
        /\ outcome = "InvalidConfiguration"
        /\ iterators = <<>>
        /\ advanced = 0

\* The number of query terms the index holds postings for.
NonEmptyTerms == Cardinality({ i \in 1..Len(input) : input[i] # <<>> })

C12_intersection_commutes ==
    (op = "intersection" /\ Finished) => out = intersection(B, A)

C12_witness ==
    /\ op = "intersection" /\ Finished
    /\ Len(out) >= 1
    /\ \E d \in Ids(A) \cap Ids(B) : FrequencyIn(A, d) # FrequencyIn(B, d)
    /\ Ids(A) # Ids(B)

StrictlyIncreasing(list) ==
    \A i \in 1..(Len(list) - 1) : list[i].document_id < list[i + 1].document_id

\* C13: what intersection, union and difference yield over strictly increasing
\* inputs is strictly increasing by document id, without duplicate ids, and so
\* is a posting list the three operations accept.
C13_output_increasing ==
    op \in {"intersection", "union", "difference"} =>
        /\ StrictlyIncreasing(out)
        /\ \A i \in 1..Len(out) : out[i].document_id \in Ids(A) \cup Ids(B)

C13_witness ==
    /\ op = "union" /\ Finished
    /\ Len(out) >= 3
    /\ Ids(A) \cap Ids(B) # {}
    /\ A # <<>> /\ B # <<>> /\ A[1].document_id > B[1].document_id

\* C14: intersection and union leave the postings of their inputs as the index
\* holds them: the summed frequency is carried by a new posting.
C14_inputs_unchanged ==
    op \in {"intersection", "union"} =>
        \A i \in 1..2 : iterators[i].items = input[i]

\* C15: with one input of intersection empty from the start, nothing is yielded
\* and no posting of the other input is consumed, whichever input is the empty one.
C15_nothing_consumed ==
    (op = "intersection" /\ Finished /\ (A = <<>> \/ B = <<>>)) =>
        /\ out = <<>>
        /\ iterators[1].pos = 0
        /\ iterators[2].pos = 0

\* C15 as amended: with iter2 empty nothing is consumed from iter1; with iter1
\* empty and iter2 not, exactly the first posting of iter2 is consumed.
C15_first_of_iter2_consumed ==
    (op = "intersection" /\ Finished /\ (A = <<>> \/ B = <<>>)) =>
        /\ out = <<>>
        /\ iterators[1].pos = 0
        /\ iterators[2].pos = IF B = <<>> THEN 0 ELSE 1

C15_witness ==
    /\ op = "intersection" /\ Finished
    /\ A = <<>> /\ Len(B) >= 2
    /\ iterators[2].pos = 1

\* The candidate of a scan step: the smallest document id under a cursor.
Candidate == postings[min_posting_index(postings)].document_id

Scanning == op = "evaluate" /\ pc = "loop" /\ Len(postings) >= match_count /\ postings # <<>>

\* C16: a scan step advances every cursor that holds the candidate id, so after
\* the step no cursor holds an id <= the candidate.
C16_candidate_cursors_advance ==
    [][Scanning => \A k \in 1..Len(postings') : postings'[k].document_id > Candidate]_vars

C18_cursor_of_its_iterator ==
    (op = "evaluate" /\ pc = "loop") =>
        \A k \in 1..Len(postings) : postings[k].from = k

RECURSIVE Consumed(_)
Consumed(its) == IF its = <<>> THEN 0 ELSE Head(its).pos + Consumed(Tail(its))

\* C19: with N >= 1 every iteration of the scan loop consumes a posting or
\* retires a cursor, and the scan ends: evaluate returns.
C19_scan_terminates ==
    /\ [][(op = "evaluate" /\ pc = "loop" /\ pc' = "loop" /\ match_count >= 1) =>
            \/ Consumed(iterators') > Consumed(iterators)
            \/ Len(postings') < Len(postings)]_vars
    /\ (op = "evaluate" /\ pc = "loop" /\ match_count >= 1)
          ~> (Finished /\ outcome = "returned")

C19_witness ==
    /\ op = "evaluate" /\ Finished /\ outcome = "returned"
    /\ match_count >= 1
    /\ advanced >= Len(input) + 3
    /\ \E i \in 1..Len(iterators) : iterators[i].pos >= 2

====
